---- MODULE Spec2Model ----
\* Auth environment configurator (packages/shared/src/auth/env.ts) and the
\* read-only environment credential backend
\* (packages/shared/src/credentials/backends/env.ts), both views over the one
\* process environment table.
EXTENDS Integers, Sequences, FiniteSets, TLC

\* Number of distinct non-empty strings a caller passes in credentials.
MaxStr == 1

-----------------------------------------------------------------------------
\* JavaScript values

\* `undefined`: a deleted / never-set variable, an omitted optional field.
Undefined == <<>>

\* A defined string value s (possibly the empty string "").
Some(s) == <<s>>

\* `null`, the not-found result of get.
Null == <<>>

\* ToBoolean on an optional string: undefined and "" are falsy.
Truthy(v) == v # Undefined /\ v[1] # ""

\* a && b
JsAnd(a, b) == IF Truthy(a) THEN b ELSE a

\* a || b
JsOr(a, b) == IF Truthy(a) THEN a ELSE b

-----------------------------------------------------------------------------
\* The process environment

ANTHROPIC_API_KEY == "ANTHROPIC_API_KEY"
CLAUDE_CODE_OAUTH_TOKEN == "CLAUDE_CODE_OAUTH_TOKEN"
ANTHROPIC_AUTH_TOKEN == "ANTHROPIC_AUTH_TOKEN"
ANTHROPIC_BASE_URL == "ANTHROPIC_BASE_URL"
CRAFT_ANTHROPIC_API_KEY == "CRAFT_ANTHROPIC_API_KEY"
CRAFT_CLAUDE_OAUTH_TOKEN == "CRAFT_CLAUDE_OAUTH_TOKEN"

\* The four variables the configurator writes and deletes.
ManagedSlots ==
  {ANTHROPIC_API_KEY, CLAUDE_CODE_OAUTH_TOKEN, ANTHROPIC_AUTH_TOKEN, ANTHROPIC_BASE_URL}

\* Every variable either file reads or writes.
EnvVars == ManagedSlots \cup {CRAFT_ANTHROPIC_API_KEY, CRAFT_CLAUDE_OAUTH_TOKEN}

\* The non-empty value the host may have exported for each variable before the
\* program runs (distinct per variable, and distinct from every caller string).
HostValue ==
  [v \in EnvVars |->
     CASE v = CRAFT_ANTHROPIC_API_KEY -> "a"
       [] v = ANTHROPIC_API_KEY -> "b"
       [] v = CRAFT_CLAUDE_OAUTH_TOKEN -> "c"
       [] v = CLAUDE_CODE_OAUTH_TOKEN -> "d"
       [] v = ANTHROPIC_AUTH_TOKEN -> "e"
       [] OTHER -> "f"]

\* Environments the process can start in: each variable unset, exported empty,
\* or exported with its host value.
HostEnvs ==
  {[v \in EnvVars |->
      CASE shape[v] = 0 -> Undefined
        [] shape[v] = 1 -> Some("")
        [] OTHER -> Some(HostValue[v])] : shape \in [EnvVars -> 0..2]}

\* The environment with nothing set.
EmptyEnv == [v \in EnvVars |-> Undefined]

\* Strings callers pass: the empty string and MaxStr non-empty ones.
CallerStrings == {""} \cup {ToString(i) : i \in 1..MaxStr}

\* An optional string field: omitted or any caller string.
OptCallerStrings == {Undefined} \cup {Some(s) : s \in CallerStrings}

-----------------------------------------------------------------------------
\* auth/env.ts

ApiKeyCredentials == [apiKey : CallerStrings, baseUrl : OptCallerStrings]

ClaudeMaxCredentials == [oauthToken : CallerStrings]

ProxyCredentials ==
  [authToken : OptCallerStrings, apiKey : OptCallerStrings, baseUrl : CallerStrings]

AuthCredentials ==
  [type : {"api_key"}, credentials : ApiKeyCredentials]
    \cup [type : {"oauth_token"}, credentials : ClaudeMaxCredentials]
    \cup [type : {"proxy"}, credentials : ProxyCredentials]

\* delete process.env[v]
DeleteVar(e, v) == [e EXCEPT ![v] = Undefined]

\* process.env[v] = s, s a string
AssignVar(e, v, s) == [e EXCEPT ![v] = Some(s)]

\* if (field) process.env[v] = field
AssignIfTruthy(e, v, field) == IF Truthy(field) THEN AssignVar(e, v, field[1]) ELSE e

\* The mutation of C4: the leading deletes forget the base URL.
clearBeforeSet_keepsBaseUrl(e) ==
  DeleteVar(DeleteVar(DeleteVar(e, ANTHROPIC_API_KEY), CLAUDE_CODE_OAUTH_TOKEN),
            ANTHROPIC_AUTH_TOKEN)

\* The mutation of C9: the leading deletes forget the OAuth token.
clearBeforeSet_keepsOauthToken(e) ==
  DeleteVar(DeleteVar(DeleteVar(e, ANTHROPIC_API_KEY), ANTHROPIC_AUTH_TOKEN),
            ANTHROPIC_BASE_URL)

\* The four deletes that open setAuthEnvironment.
clearBeforeSet(e) ==
  LET e1 == DeleteVar(e, ANTHROPIC_API_KEY)
      e2 == DeleteVar(e1, CLAUDE_CODE_OAUTH_TOKEN)
      e3 == DeleteVar(e2, ANTHROPIC_AUTH_TOKEN)
  IN DeleteVar(e3, ANTHROPIC_BASE_URL)

\* The mutation of C3: the api_key case drops the base URL.
caseApiKey_noBaseUrl(e, c) == AssignVar(e, ANTHROPIC_API_KEY, c.apiKey)

\* case 'api_key'
caseApiKey(e, c) ==
  LET e1 == AssignVar(e, ANTHROPIC_API_KEY, c.apiKey)
  IN AssignIfTruthy(e1, ANTHROPIC_BASE_URL, c.baseUrl)

\* The mutation of C10: the oauth_token case writes the variable the backend reads.
caseOauthToken_craftName(e, c) == AssignVar(e, CRAFT_CLAUDE_OAUTH_TOKEN, c.oauthToken)

\* case 'oauth_token'
caseOauthToken(e, c) == AssignVar(e, CLAUDE_CODE_OAUTH_TOKEN, c.oauthToken)

\* The mutation of C2: the proxy case writes authToken and apiKey to each
\* other's variable.
caseProxy_swapped(e, c) ==
  LET e1 == AssignVar(e, ANTHROPIC_BASE_URL, c.baseUrl)
      e2 == AssignIfTruthy(e1, ANTHROPIC_API_KEY, c.authToken)
  IN AssignIfTruthy(e2, ANTHROPIC_AUTH_TOKEN, c.apiKey)

\* case 'proxy'
caseProxy(e, c) ==
  LET e1 == AssignVar(e, ANTHROPIC_BASE_URL, c.baseUrl)
      e2 == AssignIfTruthy(e1, ANTHROPIC_AUTH_TOKEN, c.authToken)
  IN AssignIfTruthy(e2, ANTHROPIC_API_KEY, c.apiKey)

setAuthEnvironment(e, auth) ==
  LET e0 == clearBeforeSet(e)
  IN CASE auth.type = "api_key" -> caseApiKey(e0, auth.credentials)
       [] auth.type = "oauth_token" -> caseOauthToken(e0, auth.credentials)
       [] auth.type = "proxy" -> caseProxy(e0, auth.credentials)
       [] OTHER -> e0

\* The mutation of C1: the proxy auth token is not deleted.
clearAuthEnvironment_keepsAuthToken(e) ==
  DeleteVar(DeleteVar(DeleteVar(e, ANTHROPIC_API_KEY), CLAUDE_CODE_OAUTH_TOKEN),
            ANTHROPIC_BASE_URL)

clearAuthEnvironment(e) ==
  LET e1 == DeleteVar(e, ANTHROPIC_API_KEY)
      e2 == DeleteVar(e1, CLAUDE_CODE_OAUTH_TOKEN)
      e3 == DeleteVar(e2, ANTHROPIC_AUTH_TOKEN)
  IN DeleteVar(e3, ANTHROPIC_BASE_URL)

isProxyAuthConfigured(e) ==
  Truthy(JsAnd(e[ANTHROPIC_BASE_URL], JsOr(e[ANTHROPIC_AUTH_TOKEN], e[ANTHROPIC_API_KEY])))

-----------------------------------------------------------------------------
\* credentials/backends/env.ts

\* Object.keys(ENV_MAP), in insertion order.
ENV_MAP_KEYS == <<"anthropic_api_key", "claude_oauth", "anthropic_auth_token">>

ENV_MAP ==
  [t \in {"anthropic_api_key", "claude_oauth", "anthropic_auth_token"} |->
     CASE t = "anthropic_api_key" -> <<CRAFT_ANTHROPIC_API_KEY, ANTHROPIC_API_KEY>>
       [] t = "claude_oauth" -> <<CRAFT_CLAUDE_OAUTH_TOKEN>>
       [] OTHER -> <<ANTHROPIC_AUTH_TOKEN>>]

\* CredentialId['type']: the three mapped types and one the backend has no
\* mapping for.
CredentialTypes == DOMAIN ENV_MAP \cup {"workspace_oauth"}

WorkspaceIds == {Undefined, Some(""), Some("ws1")}

CredentialIds == [type : CredentialTypes, workspaceId : WorkspaceIds]

\* Partial<CredentialId>
CredentialFilters ==
  [type : {Undefined} \cup {Some(t) : t \in CredentialTypes}, workspaceId : WorkspaceIds]

StoredCredentials == [value : CallerStrings]

\* The mutation of C5: the API-key alternative is dropped.
hasEnvProxyConfig_tokenOnly(e) ==
  Truthy(JsAnd(e[ANTHROPIC_BASE_URL], e[ANTHROPIC_AUTH_TOKEN]))

hasEnvProxyConfig(e) ==
  Truthy(JsAnd(e[ANTHROPIC_BASE_URL], JsOr(e[ANTHROPIC_AUTH_TOKEN], e[ANTHROPIC_API_KEY])))

getEnvBaseUrl(e) == e[ANTHROPIC_BASE_URL]

getEnvAuthToken(e) == e[ANTHROPIC_AUTH_TOKEN]

\* The mutation of C6: the last variable with a value wins.
RECURSIVE getEnvValue_lastWins(_, _)
getEnvValue_lastWins(e, envVars) ==
  IF envVars = <<>> THEN Undefined
  ELSE LET rest == getEnvValue_lastWins(e, Tail(envVars))
       IN IF Truthy(rest) THEN rest
          ELSE IF Truthy(e[Head(envVars)]) THEN e[Head(envVars)] ELSE Undefined

RECURSIVE getEnvValue(_, _)
getEnvValue(e, envVars) ==
  IF envVars = <<>> THEN Undefined
  ELSE IF Truthy(e[Head(envVars)]) THEN e[Head(envVars)]
  ELSE getEnvValue(e, Tail(envVars))

\* ENV_MAP[type]
EnvMapLookup(type) == IF type \in DOMAIN ENV_MAP THEN Some(ENV_MAP[type]) ELSE Undefined

\* EnvironmentBackend.get: Null or <<[value |-> s]>>
EnvironmentBackend_get(e, id) ==
  IF Truthy(id.workspaceId) THEN Null
  ELSE LET envVars == EnvMapLookup(id.type)
       IN IF envVars = Undefined THEN Null
          ELSE LET value == getEnvValue(e, envVars[1])
               IN IF ~Truthy(value) THEN Null
                  ELSE Some([value |-> value[1]])

RECURSIVE ListFrom(_, _)
ListFrom(e, types) ==
  IF types = <<>> THEN <<>>
  ELSE IF Truthy(getEnvValue(e, ENV_MAP[Head(types)]))
       THEN <<[type |-> Head(types)]>> \o ListFrom(e, Tail(types))
       ELSE ListFrom(e, Tail(types))

\* The mutation of C7: the filter's type is honoured.
EnvironmentBackend_list_filtered(e, filter) ==
  SelectSeq(ListFrom(e, ENV_MAP_KEYS),
            LAMBDA id : filter.type = Undefined \/ filter.type = Some(id.type))

\* EnvironmentBackend.list
EnvironmentBackend_list(e, filter) == ListFrom(e, ENV_MAP_KEYS)

-----------------------------------------------------------------------------
\* State: the environment, and the last call with its outcome

VARIABLES env, envBefore, call, result

vars == <<env, envBefore, call, result>>

\* A call that returned v.
Returned(v) == [outcome |-> "return", value |-> v]

\* A call that threw (for an async method: a rejected promise).
Threw(msg) == [outcome |-> "throw", value |-> msg]

Init ==
  /\ env \in HostEnvs
  /\ envBefore = env
  /\ call = [op |-> "none"]
  /\ result = Returned(Undefined)

CallSetAuthEnvironment ==
  \E auth \in AuthCredentials :
    /\ env' = setAuthEnvironment(env, auth)
    /\ envBefore' = env
    /\ call' = [op |-> "setAuthEnvironment", auth |-> auth]
    /\ result' = Returned(Undefined)

CallClearAuthEnvironment ==
  /\ env' = clearAuthEnvironment(env)
  /\ envBefore' = env
  /\ call' = [op |-> "clearAuthEnvironment"]
  /\ result' = Returned(Undefined)

CallIsProxyAuthConfigured ==
  /\ envBefore' = env
  /\ call' = [op |-> "isProxyAuthConfigured"]
  /\ result' = Returned(isProxyAuthConfigured(env))
  /\ UNCHANGED env

CallHasEnvProxyConfig ==
  /\ envBefore' = env
  /\ call' = [op |-> "hasEnvProxyConfig"]
  /\ result' = Returned(hasEnvProxyConfig(env))
  /\ UNCHANGED env

CallGetEnvBaseUrl ==
  /\ envBefore' = env
  /\ call' = [op |-> "getEnvBaseUrl"]
  /\ result' = Returned(getEnvBaseUrl(env))
  /\ UNCHANGED env

CallGetEnvAuthToken ==
  /\ envBefore' = env
  /\ call' = [op |-> "getEnvAuthToken"]
  /\ result' = Returned(getEnvAuthToken(env))
  /\ UNCHANGED env

CallIsAvailable ==
  /\ envBefore' = env
  /\ call' = [op |-> "isAvailable"]
  /\ result' = Returned(TRUE)
  /\ UNCHANGED env

CallGet ==
  \E id \in CredentialIds :
    /\ envBefore' = env
    /\ call' = [op |-> "get", id |-> id]
    /\ result' = Returned(EnvironmentBackend_get(env, id))
    /\ UNCHANGED env

CallSet ==
  \E id \in CredentialIds, credential \in StoredCredentials :
    /\ envBefore' = env
    /\ call' = [op |-> "set", id |-> id, credential |-> credential]
    /\ result' = Threw("Environment backend is read-only")
    /\ UNCHANGED env

\* The mutation of C8: delete removes the type's variables and reports success.
CallDelete_deletes ==
  \E id \in CredentialIds :
    /\ envBefore' = env
    /\ call' = [op |-> "delete", id |-> id]
    /\ result' = Returned(TRUE)
    /\ env' = [v \in EnvVars |->
                IF id.type \in DOMAIN ENV_MAP
                   /\ \E i \in DOMAIN ENV_MAP[id.type] : ENV_MAP[id.type][i] = v
                THEN Undefined ELSE env[v]]

CallDelete ==
  \E id \in CredentialIds :
    /\ envBefore' = env
    /\ call' = [op |-> "delete", id |-> id]
    /\ result' = Returned(FALSE)
    /\ UNCHANGED env

CallList ==
  \E filter \in CredentialFilters :
    /\ envBefore' = env
    /\ call' = [op |-> "list", filter |-> filter]
    /\ result' = Returned(EnvironmentBackend_list(env, filter))
    /\ UNCHANGED env

Next ==
  \/ CallSetAuthEnvironment
  \/ CallClearAuthEnvironment
  \/ CallIsProxyAuthConfigured
  \/ CallHasEnvProxyConfig
  \/ CallGetEnvBaseUrl
  \/ CallGetEnvAuthToken
  \/ CallIsAvailable
  \/ CallGet
  \/ CallSet
  \/ CallDelete
  \/ CallList

Spec == Init /\ [][Next]_vars

-----------------------------------------------------------------------------
\* Vocabulary of the properties

\* A variable or field that holds a non-empty string.
NonEmpty(v) == v # Undefined /\ v # Some("")

\* An optional input field the caller supplied (with any string, "" included).
Provided(field) == field # Undefined

\* The id of a global (unscoped) credential of type t.
GlobalId(t) == [type |-> t, workspaceId |-> Undefined]

\* The value of the first variable of vs, in order, that is non-empty in e.
FirstNonEmpty(e, vs) ==
  LET hits == {i \in DOMAIN vs : NonEmpty(e[vs[i]])}
      first == CHOOSE i \in hits : \A j \in hits : i <= j
  IN e[vs[first]][1]

\* Some variable of vs is non-empty in e.
AnyNonEmpty(e, vs) == \E i \in DOMAIN vs : NonEmpty(e[vs[i]])

\* The rule both proxy predicates are documented to implement.
ProxyRule(e) ==
  /\ NonEmpty(e[ANTHROPIC_BASE_URL])
  /\ NonEmpty(e[ANTHROPIC_AUTH_TOKEN]) \/ NonEmpty(e[ANTHROPIC_API_KEY])

AfterSet(type) == call.op = "setAuthEnvironment" /\ call.auth.type = type

AfterClear == call.op = "clearAuthEnvironment"

-----------------------------------------------------------------------------
\* C1 (as stated): after clearAuthEnvironment() every query is empty:
\* isProxyAuthConfigured() is false, get({type}) is null for each of the three
\* mapped types, and list() is the empty list.
C1_AsStated ==
  AfterClear =>
    /\ ~isProxyAuthConfigured(env)
    /\ \A t \in DOMAIN ENV_MAP : EnvironmentBackend_get(env, GlobalId(t)) = Null
    /\ \A f \in CredentialFilters : EnvironmentBackend_list(env, f) = <<>>

\* C1 (amended): after clearAuthEnvironment(), isProxyAuthConfigured() is false
\* and get({type:'anthropic_auth_token'}) is null; get for anthropic_api_key and
\* claude_oauth returns the value of CRAFT_ANTHROPIC_API_KEY and
\* CRAFT_CLAUDE_OAUTH_TOKEN respectively when that variable is non-empty and
\* null otherwise; list() holds exactly the types whose CRAFT_ variable is
\* non-empty.
C1_ClearLeavesOnlyCraftVariables ==
  AfterClear =>
    /\ ~isProxyAuthConfigured(env)
    /\ EnvironmentBackend_get(env, GlobalId("anthropic_auth_token")) = Null
    /\ EnvironmentBackend_get(env, GlobalId("anthropic_api_key")) =
         IF NonEmpty(envBefore[CRAFT_ANTHROPIC_API_KEY])
         THEN Some([value |-> envBefore[CRAFT_ANTHROPIC_API_KEY][1]]) ELSE Null
    /\ EnvironmentBackend_get(env, GlobalId("claude_oauth")) =
         IF NonEmpty(envBefore[CRAFT_CLAUDE_OAUTH_TOKEN])
         THEN Some([value |-> envBefore[CRAFT_CLAUDE_OAUTH_TOKEN][1]]) ELSE Null
    /\ \A f \in CredentialFilters :
         LET l == EnvironmentBackend_list(env, f)
         IN /\ {l[i].type : i \in DOMAIN l} =
                 {t \in {"anthropic_api_key"} : NonEmpty(envBefore[CRAFT_ANTHROPIC_API_KEY])}
                   \cup {t \in {"claude_oauth"} : NonEmpty(envBefore[CRAFT_CLAUDE_OAUTH_TOKEN])}
            /\ Len(l) <= 2

\* A clear of an environment in which all four slots and CRAFT_ANTHROPIC_API_KEY
\* held values.
C1_Witness ==
  /\ AfterClear
  /\ \A v \in ManagedSlots : NonEmpty(envBefore[v])
  /\ NonEmpty(envBefore[CRAFT_ANTHROPIC_API_KEY])
  /\ ~NonEmpty(envBefore[CRAFT_CLAUDE_OAUTH_TOKEN])

\* C2 (as stated): after setAuthEnvironment with a proxy credential the base-URL
\* slot equals baseUrl, the auth-token slot is populated iff authToken was
\* provided, the API-key slot is populated iff apiKey was provided, each
\* populated slot holds the provided value, and the OAuth slot is empty.
C2_AsStated ==
  AfterSet("proxy") =>
    LET c == call.auth.credentials
    IN /\ env[ANTHROPIC_BASE_URL] = Some(c.baseUrl)
       /\ (env[ANTHROPIC_AUTH_TOKEN] # Undefined) <=> Provided(c.authToken)
       /\ (env[ANTHROPIC_API_KEY] # Undefined) <=> Provided(c.apiKey)
       /\ env[ANTHROPIC_AUTH_TOKEN] # Undefined => env[ANTHROPIC_AUTH_TOKEN] = c.authToken
       /\ env[ANTHROPIC_API_KEY] # Undefined => env[ANTHROPIC_API_KEY] = c.apiKey
       /\ env[CLAUDE_CODE_OAUTH_TOKEN] = Undefined

\* C2 (amended): after setAuthEnvironment with a proxy credential the base-URL
\* slot equals baseUrl, the auth-token slot holds authToken iff authToken was
\* provided and non-empty and is unset otherwise, likewise the API-key slot for
\* apiKey, and the OAuth slot is unset.
C2_ProxySlots ==
  AfterSet("proxy") =>
    LET c == call.auth.credentials
    IN /\ env[ANTHROPIC_BASE_URL] = Some(c.baseUrl)
       /\ env[ANTHROPIC_AUTH_TOKEN] = IF NonEmpty(c.authToken) THEN c.authToken ELSE Undefined
       /\ env[ANTHROPIC_API_KEY] = IF NonEmpty(c.apiKey) THEN c.apiKey ELSE Undefined
       /\ env[CLAUDE_CODE_OAUTH_TOKEN] = Undefined

\* A proxy credential with an auth token and no API key, installed over an
\* environment that held an API key and an OAuth token.
C2_Witness ==
  /\ AfterSet("proxy")
  /\ NonEmpty(call.auth.credentials.authToken)
  /\ call.auth.credentials.apiKey = Undefined
  /\ NonEmpty(envBefore[ANTHROPIC_API_KEY])
  /\ NonEmpty(envBefore[CLAUDE_CODE_OAUTH_TOKEN])

\* C3 (as stated): after setAuthEnvironment with an api_key credential the OAuth
\* and auth-token slots are empty, the API-key slot equals apiKey, and the
\* base-URL slot equals baseUrl, or is empty if baseUrl is absent.
C3_AsStated ==
  AfterSet("api_key") =>
    LET c == call.auth.credentials
    IN /\ env[CLAUDE_CODE_OAUTH_TOKEN] = Undefined
       /\ env[ANTHROPIC_AUTH_TOKEN] = Undefined
       /\ env[ANTHROPIC_API_KEY] = Some(c.apiKey)
       /\ Provided(c.baseUrl) => env[ANTHROPIC_BASE_URL] = c.baseUrl
       /\ ~Provided(c.baseUrl) => env[ANTHROPIC_BASE_URL] = Undefined

\* C3 (amended): after setAuthEnvironment with an api_key credential the OAuth
\* and auth-token slots are unset, the API-key slot equals apiKey, and the
\* base-URL slot equals baseUrl when baseUrl is provided and non-empty and is
\* unset when baseUrl is absent or the empty string.
C3_ApiKeySlots ==
  AfterSet("api_key") =>
    LET c == call.auth.credentials
    IN /\ env[CLAUDE_CODE_OAUTH_TOKEN] = Undefined
       /\ env[ANTHROPIC_AUTH_TOKEN] = Undefined
       /\ env[ANTHROPIC_API_KEY] = Some(c.apiKey)
       /\ env[ANTHROPIC_BASE_URL] = IF NonEmpty(c.baseUrl) THEN c.baseUrl ELSE Undefined

\* An api_key credential with a base URL, installed over an environment that
\* held an OAuth token and a proxy auth token.
C3_Witness ==
  /\ AfterSet("api_key")
  /\ NonEmpty(call.auth.credentials.baseUrl)
  /\ NonEmpty(envBefore[CLAUDE_CODE_OAUTH_TOKEN])
  /\ NonEmpty(envBefore[ANTHROPIC_AUTH_TOKEN])

\* C4: after setAuthEnvironment with an oauth_token credential, whatever the
\* environment held before, the OAuth slot holds oauthToken and the API-key,
\* auth-token and base-URL slots are unset.
C4_OauthOnly ==
  AfterSet("oauth_token") =>
    /\ env[CLAUDE_CODE_OAUTH_TOKEN] = Some(call.auth.credentials.oauthToken)
    /\ env[ANTHROPIC_API_KEY] = Undefined
    /\ env[ANTHROPIC_AUTH_TOKEN] = Undefined
    /\ env[ANTHROPIC_BASE_URL] = Undefined

\* An oauth_token credential installed right after a proxy configuration: the
\* environment before held a caller-written base URL and auth token.
C4_Witness ==
  /\ AfterSet("oauth_token")
  /\ envBefore[ANTHROPIC_BASE_URL] = Some("1")
  /\ envBefore[ANTHROPIC_AUTH_TOKEN] = Some("1")

\* C5: in every environment isProxyAuthConfigured() and hasEnvProxyConfig()
\* agree, and are true iff ANTHROPIC_BASE_URL is non-empty and ANTHROPIC_AUTH_TOKEN
\* or ANTHROPIC_API_KEY is non-empty; a call of either returns that value and
\* leaves the environment as it was.
C5_ProxyPredicates ==
  /\ isProxyAuthConfigured(env) = hasEnvProxyConfig(env)
  /\ isProxyAuthConfigured(env) = ProxyRule(env)
  /\ call.op \in {"isProxyAuthConfigured", "hasEnvProxyConfig"} =>
       /\ result = Returned(ProxyRule(envBefore))
       /\ env = envBefore

\* hasEnvProxyConfig() answering true on the strength of the API key alone.
C5_Witness ==
  /\ call.op = "hasEnvProxyConfig"
  /\ result = Returned(TRUE)
  /\ ~NonEmpty(env[ANTHROPIC_AUTH_TOKEN])
  /\ NonEmpty(env[ANTHROPIC_API_KEY])

\* C6 (as stated): get(id) never throws; it returns null when id.workspaceId is
\* set, when id.type has no ENV_MAP entry, or when no mapped variable is
\* non-empty, and otherwise {value} of the first non-empty mapped variable.
C6_AsStated ==
  call.op = "get" =>
    /\ result.outcome = "return"
    /\ result.value =
         IF \/ Provided(call.id.workspaceId)
            \/ call.id.type \notin DOMAIN ENV_MAP
            \/ ~AnyNonEmpty(envBefore, ENV_MAP[call.id.type])
         THEN Null
         ELSE Some([value |-> FirstNonEmpty(envBefore, ENV_MAP[call.id.type])])

\* C6 (amended): get(id) never throws; it returns null when id.workspaceId is a
\* non-empty string, when id.type has no ENV_MAP entry, or when no mapped
\* variable is non-empty, and otherwise (workspaceId absent or the empty string)
\* {value} of the first non-empty mapped variable.
C6_GetFirstNonEmpty ==
  call.op = "get" =>
    /\ result.outcome = "return"
    /\ result.value =
         IF \/ NonEmpty(call.id.workspaceId)
            \/ call.id.type \notin DOMAIN ENV_MAP
            \/ ~AnyNonEmpty(envBefore, ENV_MAP[call.id.type])
         THEN Null
         ELSE Some([value |-> FirstNonEmpty(envBefore, ENV_MAP[call.id.type])])

\* get({type:'anthropic_api_key'}) with CRAFT_ANTHROPIC_API_KEY = "a" and
\* ANTHROPIC_API_KEY = "b" returning "a".
C6_Witness ==
  /\ call.op = "get"
  /\ call.id = GlobalId("anthropic_api_key")
  /\ envBefore[CRAFT_ANTHROPIC_API_KEY] = Some("a")
  /\ envBefore[ANTHROPIC_API_KEY] = Some("b")
  /\ result = Returned(Some([value |-> "a"]))

\* C7: list(filter) returns, whatever the filter, one identity {type} and
\* nothing else (no workspaceId, no value) for each ENV_MAP type with a
\* non-empty mapped variable, and no other entry.
C7_ListExactlyConfiguredTypes ==
  call.op = "list" =>
    /\ result.outcome = "return"
    /\ \A i \in DOMAIN result.value :
         /\ DOMAIN result.value[i] = {"type"}
         /\ \A j \in DOMAIN result.value : result.value[j] = result.value[i] => j = i
    /\ {result.value[i].type : i \in DOMAIN result.value} =
         {t \in DOMAIN ENV_MAP : AnyNonEmpty(envBefore, ENV_MAP[t])}

\* list({type:'claude_oauth'}) with only ANTHROPIC_AUTH_TOKEN set returning
\* [{type:'anthropic_auth_token'}].
C7_Witness ==
  /\ call.op = "list"
  /\ call.filter.type = Some("claude_oauth")
  /\ \A v \in EnvVars : NonEmpty(envBefore[v]) <=> v = ANTHROPIC_AUTH_TOKEN
  /\ result = Returned(<<[type |-> "anthropic_auth_token"]>>)

\* C8: set(id, credential) always throws, delete(id) always returns false, and
\* neither changes the environment, so get and list answer as before.
C8_ReadOnly ==
  /\ call.op = "set" => result.outcome = "throw" /\ env = envBefore
  /\ call.op = "delete" => result = Returned(FALSE) /\ env = envBefore
  /\ call.op \in {"set", "delete"} =>
       /\ \A id \in CredentialIds :
            EnvironmentBackend_get(env, id) = EnvironmentBackend_get(envBefore, id)
       /\ \A f \in CredentialFilters :
            EnvironmentBackend_list(env, f) = EnvironmentBackend_list(envBefore, f)

\* delete of the API-key credential while both of its variables hold values.
C8_Witness ==
  /\ call.op = "delete"
  /\ call.id = GlobalId("anthropic_api_key")
  /\ NonEmpty(env[CRAFT_ANTHROPIC_API_KEY])
  /\ NonEmpty(env[ANTHROPIC_API_KEY])

\* C9: after a setAuthEnvironment or clearAuthEnvironment call the four managed
\* slots hold what that call produces from the empty environment, whatever the
\* environment held before, and repeating the call changes nothing.
C9_LastCallAlone ==
  /\ call.op = "setAuthEnvironment" =>
       /\ \A v \in ManagedSlots : env[v] = setAuthEnvironment(EmptyEnv, call.auth)[v]
       /\ setAuthEnvironment(env, call.auth) = env
  /\ AfterClear =>
       /\ \A v \in ManagedSlots : env[v] = clearAuthEnvironment(EmptyEnv)[v]
       /\ clearAuthEnvironment(env) = env

\* An api_key configuration without base URL replacing a proxy configuration
\* written by an earlier call (base URL, auth token and API key all set).
C9_Witness ==
  /\ AfterSet("api_key")
  /\ call.auth.credentials.baseUrl = Undefined
  /\ envBefore[ANTHROPIC_BASE_URL] = Some("1")
  /\ envBefore[ANTHROPIC_AUTH_TOKEN] = Some("1")
  /\ envBefore[ANTHROPIC_API_KEY] = Some("1")

\* C10: setAuthEnvironment and clearAuthEnvironment never change
\* CRAFT_ANTHROPIC_API_KEY or CRAFT_CLAUDE_OAUTH_TOKEN, so get({type:'claude_oauth'})
\* answers the same before and after; in particular after
\* setAuthEnvironment({type:'oauth_token'}) it still answers null unless
\* CRAFT_CLAUDE_OAUTH_TOKEN is non-empty, and then with that variable's value.
C10_CraftVariablesUntouched ==
  call.op \in {"setAuthEnvironment", "clearAuthEnvironment"} =>
    /\ env[CRAFT_ANTHROPIC_API_KEY] = envBefore[CRAFT_ANTHROPIC_API_KEY]
    /\ env[CRAFT_CLAUDE_OAUTH_TOKEN] = envBefore[CRAFT_CLAUDE_OAUTH_TOKEN]
    /\ EnvironmentBackend_get(env, GlobalId("claude_oauth")) =
         EnvironmentBackend_get(envBefore, GlobalId("claude_oauth"))
    /\ AfterSet("oauth_token") =>
         EnvironmentBackend_get(env, GlobalId("claude_oauth")) =
           IF NonEmpty(envBefore[CRAFT_CLAUDE_OAUTH_TOKEN])
           THEN Some([value |-> envBefore[CRAFT_CLAUDE_OAUTH_TOKEN][1]]) ELSE Null

\* A non-empty OAuth token installed while CRAFT_CLAUDE_OAUTH_TOKEN is unset:
\* the token is in CLAUDE_CODE_OAUTH_TOKEN and the backend has no claude_oauth.
C10_Witness ==
  /\ AfterSet("oauth_token")
  /\ NonEmpty(env[CLAUDE_CODE_OAUTH_TOKEN])
  /\ env[CRAFT_CLAUDE_OAUTH_TOKEN] = Undefined
  /\ EnvironmentBackend_get(env, GlobalId("claude_oauth")) = Null

====
